---------------------------- MODULE Spec2Model ----------------------------
(***************************************************************************)
(* The result caches of the repository:                                    *)
(*   "cache"    src/06_decorator/decorator.py     cache(func)              *)
(*              key = str(args) + str(sorted(kwargs.items()))              *)
(*   "cache03"  src/06_decorator/03_decorator.py  cache(func)              *)
(*              key = args (the tuple of positional arguments)             *)
(*   "memoize"  src/04_functions/01.py            memoize(func)            *)
(*              key = args, plus clear_cache()                             *)
(* One behaviour follows one wrapper (impl is fixed by Init).  A call of   *)
(* the wrapper is split at the points where another thread can run: the    *)
(* lookup, the start and the end of the wrapped function, the store.       *)
(***************************************************************************)
EXTENDS Integers, Sequences, FiniteSets, TLC

VARIABLES
    impl,         \* which wrapper this behaviour follows
    cache_value,  \* the wrapper's dict: key -> result
    pc,           \* per thread: where it is inside wrapper()
    call,         \* per thread: the arguments of the call in progress
    key,          \* per thread: the local `key` (or `args`) of the call
    result,       \* per thread: the local `result`
    ret,          \* per thread: how its last call ended
    ncalls,       \* operations the callers made so far (bounded by MaxCalls)
    invoked,      \* history: key -> invocations of func since the last clear
    raised,       \* history: key -> invocations that raised since the last clear
    stored,       \* history: key -> stores under the key since the last clear
    first,        \* history: key -> first result computed since the last clear
    origin,       \* history: key -> the call whose result was first stored
    wiped,        \* history: the keys that a clear has removed
    \* 07_threads_concurrency/01.py: the lock-protected counter
    counter_safe, \* the global counter_safe
    counter_lock, \* counter_lock: 0 when free, else the thread holding it
    cpc,          \* per worker thread: where it is inside safe_increment()
    ci,           \* per worker thread: iterations of the for loop completed
    creg,         \* per worker thread: the value it loaded for counter_safe += 1
    \* the memoized recursive fibonacci (decorator.py 106-119, 01.py 411-422)
    fib_n,        \* the argument of the top-level calls
    fib_stack,    \* the frames of wrapper(n) in progress, innermost last
    fib_cache,    \* the wrapper's dict: key -> result
    fib_done,     \* top-level calls that have returned
    fib_ret,      \* what the last top-level call returned
    fib_body,     \* history: k -> invocations of the wrapped body with n = k
    \* retry(max_attempts, delay) (decorator.py 198-227)
    max_attempts, \* the decorator's max_attempts
    delay,        \* the decorator's delay
    attempt,      \* the loop variable of wrapper
    rpc,          \* where the caller is inside wrapper()
    rcalls,       \* calls of wrapper made so far
    rcaught,      \* the exception caught by `except Exception as e`
    rout,         \* how the last call of wrapper ended
    rhist,        \* history: how each invocation of func in this call ended
    rslept,       \* history: time.sleep calls in this call
    rclock,       \* history: seconds slept since the start
    \* transfer_money and view_all_accounts (decorator.py 276-289)
    now,          \* time.time(), in seconds since the start
    calls,        \* rate_limit's list `calls` of transfer_money
    logged,       \* "Executing" lines printed by log_calls
    tn,           \* calls of the two functions made so far
    tcall,        \* the last call: function, user, amount, how amount was passed
    tret,         \* what the last call returned, and whether the body ran
    accepted,     \* history: the times at which rate_limit called through
    \* AsyncRateLimitedClient (08_async_python/01.py 493-540)
    atime,        \* time.time(), in ticks of 0.2 s since the start
    request_times, \* self.request_times
    apc,          \* per coroutine: where it is inside make_request()
    adue,         \* per coroutine: when its asyncio.sleep ends
    admitted,     \* history: every time appended to request_times
    \* 07_threads_concurrency/01.py: the counter without a lock
    counter_unsafe, \* the global counter_unsafe
    upc,          \* per worker thread: where it is inside unsafe_increment()
    ui,           \* per worker thread: iterations of the for loop completed
    ureg          \* per worker thread: the value it loaded for counter_unsafe += 1

cacheVars == <<impl, cache_value, pc, call, key, result, ret, ncalls,
               invoked, raised, stored, first, origin, wiped>>

counterVars == <<counter_safe, counter_lock, cpc, ci, creg>>

fibVars == <<fib_n, fib_stack, fib_cache, fib_done, fib_ret, fib_body>>

retryVars == <<max_attempts, delay, attempt, rpc, rcalls, rcaught, rout, rhist, rslept, rclock>>

prodVars == <<now, calls, logged, tn, tcall, tret, accepted>>

clientVars == <<atime, request_times, apc, adue, admitted>>

unsafeVars == <<counter_unsafe, upc, ui, ureg>>

\* everything but the caches' variables
otherVars == <<counterVars, fibVars, retryVars, prodVars, clientVars, unsafeVars>>

\* everything but the counter variables
notCounter == <<cacheVars, fibVars, retryVars, prodVars, clientVars, unsafeVars>>

\* everything but the fib variables
notFib == <<cacheVars, counterVars, retryVars, prodVars, clientVars, unsafeVars>>

\* everything but the retry variables
notRetry == <<cacheVars, counterVars, fibVars, prodVars, clientVars, unsafeVars>>

\* everything but the prod variables
notProd == <<cacheVars, counterVars, fibVars, retryVars, clientVars, unsafeVars>>

\* everything but the client variables
notClient == <<cacheVars, counterVars, fibVars, retryVars, prodVars, unsafeVars>>

\* everything but the unsafe variables
notUnsafe == <<cacheVars, counterVars, fibVars, retryVars, prodVars, clientVars>>

vars == <<cacheVars, otherVars>>

---------------------------------------------------------------------------
(* Bounds *)

MaxCalls == 3
NThreads == 2
NWorkers == 2      \* threads running safe_increment (2 in the source)
Increments == 3    \* iterations of each worker's loop (100000 in the source)
MaxFib == 5        \* largest argument of fibonacci (10 in the source)
FibTopCalls == 2   \* top-level calls of fibonacci (decorator.py 118-119)
MaxAttempts == 3   \* largest max_attempts of retry (3 in the source)
MaxDelay == 2      \* largest delay of retry, in seconds
RetryCalls == 2    \* calls of a function wrapped by retry
max_calls == 2     \* rate_limit(max_calls=2, ...) on transfer_money
time_window == 10  \* rate_limit(..., time_window=10) on transfer_money
MaxTime == 12      \* the clock stops here
MaxProdCalls == 5  \* calls of transfer_money and view_all_accounts
rate_limit == 3    \* AsyncRateLimitedClient(requests_per_second=3)
Window == 5        \* 1.0 s, in ticks of 0.2 s
RequestTicks == 1  \* asyncio.sleep(0.2), in ticks of 0.2 s
NCoros == 8        \* make_request coroutines gathered on one client
MaxClientTime == 12 \* the clock stops here

Threads == 1..NThreads
MainThread == 1

Impls == {"cache", "cache03", "memoize"}

---------------------------------------------------------------------------
(* Python values that appear as arguments.  [t, n]: the int n, the bool    *)
(* (n = 1 is True), the str whose text is the digit n, the list [n].       *)

PyInt(n) == [t |-> "int", n |-> n]
PyBool(n) == [t |-> "bool", n |-> n]
PyStr(n) == [t |-> "str", n |-> n]
PyList(n) == [t |-> "list", n |-> n]

Values == {PyInt(1), PyBool(1), PyStr(1), PyList(1)}
KwNames == <<"filename", "operation">>   \* in sorted (lexicographic) order

Digit(n) ==
    CASE n = 0 -> "0" [] n = 1 -> "1" [] n = 2 -> "2" [] n = 3 -> "3"
      [] n = 4 -> "4" [] n = 5 -> "5" [] n = 6 -> "6" [] n = 7 -> "7"
      [] n = 8 -> "8" [] OTHER -> "9"

\* str(v) in place of repr(v): a str is shown without its quotes
ReprUnquoted(v) ==
    CASE v.t = "int" -> Digit(v.n)
      [] v.t = "bool" -> (IF v.n = 1 THEN "True" ELSE "False")
      [] v.t = "str" -> Digit(v.n)
      [] v.t = "list" -> "[" \o Digit(v.n) \o "]"

\* repr(v): what str() of a tuple or a list shows for an element
Repr(v) ==
    CASE v.t = "int" -> Digit(v.n)
      [] v.t = "bool" -> (IF v.n = 1 THEN "True" ELSE "False")
      [] v.t = "str" -> "'" \o Digit(v.n) \o "'"
      [] v.t = "list" -> "[" \o Digit(v.n) \o "]"

\* hash(v) succeeds: lists are unhashable
Hashable(v) == v.t # "list"

\* Python's == and hash agree on 1 and True: as a dict key they are one key
Canon(v) == IF v.t = "bool" THEN PyInt(v.n) ELSE v

PyEq(v, w) == Canon(v) = Canon(w)


---------------------------------------------------------------------------
(* A call: the positional arguments in order, and the named arguments in   *)
(* the order the caller wrote them (names unique).                         *)

Kw(i, v) == <<KwNames[i], v>>

\* positional arguments only: f(), f(1), f(True), f('1'), f([1]), f(1, '1')
PositionalCalls ==
    {[args |-> a, kwargs |-> <<>>] :
        a \in {<<>>} \cup {<<v>> : v \in Values} \cup {<<PyInt(1), PyStr(1)>>}}

\* named arguments: f(filename=1), f(operation=1), f(filename='1'),
\* f(filename=1, operation=1), f(operation=1, filename=1), f(1, operation=1)
NamedCalls ==
    {[args |-> <<>>, kwargs |-> k] :
        k \in {<<Kw(1, PyInt(1))>>, <<Kw(2, PyInt(1))>>, <<Kw(1, PyStr(1))>>,
               <<Kw(1, PyInt(1)), Kw(2, PyInt(1))>>,
               <<Kw(2, PyInt(1)), Kw(1, PyInt(1))>>}}
    \cup {[args |-> <<PyInt(1)>>, kwargs |-> <<Kw(2, PyInt(1))>>]}

Calls == PositionalCalls \cup NamedCalls

\* the calls the concurrent specification draws from: f(), f(1), f('1')
ConcCalls ==
    {[args |-> a, kwargs |-> <<>>] : a \in {<<>>, <<PyInt(1)>>, <<PyStr(1)>>}}

NameRank(name) == CHOOSE i \in 1..Len(KwNames) : KwNames[i] = name

\* sorted(kwargs.items()): names are unique, so the order is the names' order
RECURSIVE Insert(_, _)
Insert(p, s) ==
    IF s = <<>> THEN <<p>>
    ELSE IF NameRank(p[1]) <= NameRank(Head(s)[1]) THEN <<p>> \o s
    ELSE <<Head(s)>> \o Insert(p, Tail(s))

\* kwargs.items() taken in the caller's order
Unsorted(s) == s

RECURSIVE Sorted(_)
Sorted(s) == IF s = <<>> THEN <<>> ELSE Insert(Head(s), Sorted(Tail(s)))

RECURSIVE Join(_, _)
Join(strs, sep) ==
    IF strs = <<>> THEN ""
    ELSE IF Len(strs) = 1 THEN Head(strs)
    ELSE Head(strs) \o sep \o Join(Tail(strs), sep)

\* str(args) of a tuple: "()", "(x,)", "(x, y)"
StrTuple(args) ==
    IF Len(args) = 1 THEN "(" \o Repr(args[1]) \o ",)"
    ELSE "(" \o Join([i \in 1..Len(args) |-> Repr(args[i])], ", ") \o ")"

\* str of a list of (name, value) pairs: "[('a', 1), ('b', '1')]"
StrItems(items) ==
    "[" \o Join([i \in 1..Len(items) |->
                   "('" \o items[i][1] \o "', " \o Repr(items[i][2]) \o ")"], ", ")
        \o "]"

\* a key derived after binding the positional arguments to the parameter
\* names (filename, operation): f(x) and f(filename=x) get one key
StrKeyBound(c) ==
    StrTuple(<<>>) \o StrItems(Sorted([j \in 1..Len(c.args) |-> <<KwNames[j], c.args[j]>>]
                                       \o c.kwargs))

\* decorator.py: key = str(args) + str(sorted(kwargs.items()))
StrKey(c) == StrTuple(c.args) \o StrItems(Sorted(c.kwargs))

\* 03_decorator.py, memoize: the key is the tuple args itself; a dict finds a
\* key by hash and ==
TupleKey(c) == [i \in 1..Len(c.args) |-> Canon(c.args[i])]

\* what the call raises before func is reached: wrapper(*args) takes no
\* named arguments, and `args in cache` hashes the tuple
KeyError(i, c) ==
    IF i = "cache" THEN "none"
    ELSE IF c.kwargs # <<>> THEN "TypeError: unexpected keyword argument"
    ELSE IF \E j \in 1..Len(c.args) : ~Hashable(c.args[j]) THEN "TypeError: unhashable type"
    ELSE "none"

Key(i, c) == IF i = "cache" THEN StrKey(c) ELSE TupleKey(c)

\* the wrapped function: a pure function of the values it receives
Func(c) == <<c.args, {c.kwargs[j] : j \in 1..Len(c.kwargs)}>>

---------------------------------------------------------------------------
(* dicts *)

EmptyDict == <<>>
Has(d, k) == k \in DOMAIN d
Get(d, k, default) == IF k \in DOMAIN d THEN d[k] ELSE default
Put(d, k, v) == [x \in DOMAIN d \cup {k} |-> IF x = k THEN v ELSE d[x]]

\* only memoize attaches a clear operation to the wrapper (clear_cache)
HasClearCache(i) == i = "memoize"

NoCall == [args |-> <<>>, kwargs |-> <<>>]
NoRet == [kind |-> "none", val |-> <<>>, hit |-> FALSE]
Returned(v, h) == [kind |-> "value", val |-> v, hit |-> h]
Raised(e) == [kind |-> "raise", val |-> <<e>>, hit |-> FALSE]
Cleared == [kind |-> "cleared", val |-> <<>>, hit |-> FALSE]

Workers == 1..NWorkers

\* counter_safe = 0; counter_lock = Lock(); the threads are created
CounterInit ==
    /\ counter_safe = 0
    /\ counter_lock = 0
    /\ cpc = [w \in Workers |-> "loop"]
    /\ ci = [w \in Workers |-> 0]
    /\ creg = [w \in Workers |-> 0]

\* no call of fibonacci made yet
FibIdle ==
    /\ fib_stack = <<>>
    /\ fib_cache = EmptyDict
    /\ fib_done = 0
    /\ fib_ret = <<>>
    /\ fib_body = EmptyDict

\* wrapper not called yet
RetryIdle ==
    /\ attempt = 0
    /\ rpc = "idle"
    /\ rcalls = 0
    /\ rcaught = <<>>
    /\ rout = [kind |-> "none", val |-> <<>>]
    /\ rhist = <<>>
    /\ rslept = 0
    /\ rclock = 0

\* the decorators applied, no call made
ProdInit ==
    /\ now = 0
    /\ calls = <<>>
    /\ logged = 0
    /\ tn = 0
    /\ tcall = [fn |-> "none", user |-> <<>>, amount |-> 0, named |-> FALSE]
    /\ tret = [val |-> "", invoked |-> FALSE]
    /\ accepted = <<>>

Coros == 1..NCoros

\* the client is constructed, no make_request is running
ClientInit ==
    /\ atime = 0
    /\ request_times = <<>>
    /\ apc = [c \in Coros |-> "new"]
    /\ adue = [c \in Coros |-> 0]
    /\ admitted = <<>>

\* counter_unsafe = 0 and the threads created (78, 90-91)
UnsafeInit ==
    /\ counter_unsafe = 0
    /\ upc = [w \in Workers |-> "loop"]
    /\ ui = [w \in Workers |-> 0]
    /\ ureg = [w \in Workers |-> 0]

\* the programs other than the caches and x, not started
Rest(x) ==
    /\ IF x = "counter" THEN TRUE ELSE CounterInit
    /\ IF x = "fib" THEN TRUE ELSE FibIdle /\ fib_n = 0
    /\ IF x = "retry" THEN TRUE ELSE RetryIdle /\ max_attempts = 3 /\ delay = 1
    /\ IF x = "prod" THEN TRUE ELSE ProdInit
    /\ IF x = "client" THEN TRUE ELSE ClientInit
    /\ IF x = "unsafe" THEN TRUE ELSE UnsafeInit

\* the other programs of the repository, not started
OthersIdle == Rest("caches")

CacheInit ==
    /\ impl \in Impls
    /\ cache_value = EmptyDict
    /\ pc = [t \in Threads |-> "idle"]
    /\ call = [t \in Threads |-> NoCall]
    /\ key = [t \in Threads |-> <<>>]
    /\ result = [t \in Threads |-> <<>>]
    /\ ret = [t \in Threads |-> NoRet]
    /\ ncalls = 0
    /\ invoked = EmptyDict
    /\ stored = EmptyDict
    /\ first = EmptyDict
    /\ raised = EmptyDict
    /\ origin = EmptyDict
    /\ wiped = {}

Init == OthersIdle /\ CacheInit

\* the caches are not in use: one wrapper, never called
CacheIdle0 == CacheInit /\ impl = "cache"

\* wrapper(*args, **kwargs) is entered: the key is derived and looked up
\* (decorator.py 77-81, 03_decorator.py 8-9, 04_functions/01.py 395-396)
Call(t, c) ==
    /\ pc[t] = "idle"
    /\ ncalls < MaxCalls
    /\ ncalls' = ncalls + 1
    /\ call' = [call EXCEPT ![t] = c]
    /\ IF KeyError(impl, c) # "none"
       THEN /\ ret' = [ret EXCEPT ![t] = Raised(KeyError(impl, c))]
            /\ UNCHANGED <<pc, key>>
       ELSE /\ key' = [key EXCEPT ![t] = Key(impl, c)]
            /\ pc' = [pc EXCEPT ![t] = IF Has(cache_value, Key(impl, c)) THEN "hit" ELSE "miss"]
            /\ ret' = [ret EXCEPT ![t] = NoRet]
    /\ UNCHANGED <<otherVars, impl, cache_value, result, invoked, raised, stored, first, origin, wiped>>

\* a hit that takes the entry out of the dict (pop in place of a read)
HitEvicts(t) ==
    /\ pc[t] = "hit"
    /\ pc' = [pc EXCEPT ![t] = "idle"]
    /\ ret' = [ret EXCEPT ![t] = Returned(cache_value[key[t]], TRUE)]
    /\ cache_value' = [x \in DOMAIN cache_value \ {key[t]} |-> cache_value[x]]
    /\ UNCHANGED <<otherVars, impl, call, key, result, ncalls, invoked, raised, stored, first,
                   origin, wiped>>

\* return cache_value[key]
Hit(t) ==
    /\ pc[t] = "hit"
    /\ pc' = [pc EXCEPT ![t] = "idle"]
    /\ ret' = [ret EXCEPT ![t] =
                 IF Has(cache_value, key[t]) THEN Returned(cache_value[key[t]], TRUE)
                 ELSE Raised("KeyError")]
    /\ UNCHANGED <<otherVars, impl, cache_value, call, key, result, ncalls, invoked, raised, stored, first, origin, wiped>>

\* result = func(*args, **kwargs): func is entered
Invoke(t) ==
    /\ pc[t] = "miss"
    /\ pc' = [pc EXCEPT ![t] = "running"]
    /\ invoked' = Put(invoked, key[t], Get(invoked, key[t], 0) + 1)
    /\ UNCHANGED <<otherVars, impl, cache_value, call, key, result, ret, ncalls, raised, stored, first, origin, wiped>>

\* func returns its value
FuncReturn(t) ==
    /\ pc[t] = "running"
    /\ pc' = [pc EXCEPT ![t] = "store"]
    /\ result' = [result EXCEPT ![t] = Func(call[t])]
    /\ first' = IF Has(first, key[t]) THEN first ELSE Put(first, key[t], Func(call[t]))
    /\ UNCHANGED <<otherVars, impl, cache_value, call, key, ret, ncalls, invoked, raised, stored, origin, wiped>>

\* a wrapper that remembers the failure under the key
FuncRaiseCached(t) ==
    /\ pc[t] = "running"
    /\ pc' = [pc EXCEPT ![t] = "idle"]
    /\ ret' = [ret EXCEPT ![t] = Raised("ComputationFailure")]
    /\ cache_value' = Put(cache_value, key[t], <<"ComputationFailure">>)
    /\ raised' = Put(raised, key[t], Get(raised, key[t], 0) + 1)
    /\ UNCHANGED <<otherVars, impl, call, key, result, ncalls, invoked, stored, first, origin, wiped>>

\* func raises: the exception leaves wrapper, the store is not reached
FuncRaise(t) ==
    /\ pc[t] = "running"
    /\ pc' = [pc EXCEPT ![t] = "idle"]
    /\ ret' = [ret EXCEPT ![t] = Raised("ComputationFailure")]
    /\ raised' = Put(raised, key[t], Get(raised, key[t], 0) + 1)
    /\ UNCHANGED <<otherVars, impl, cache_value, call, key, result, ncalls, invoked, stored, first, origin, wiped>>

\* a wrapper that returns the result without writing it to the dict
StoreNothing(t) ==
    /\ pc[t] = "store"
    /\ pc' = [pc EXCEPT ![t] = "idle"]
    /\ ret' = [ret EXCEPT ![t] = Returned(result[t], FALSE)]
    /\ UNCHANGED <<otherVars, impl, cache_value, call, key, result, ncalls, invoked, raised,
                   stored, first, origin, wiped>>

\* a bounded cache of one entry: the store drops every other entry
StoreEvicting(t) ==
    /\ pc[t] = "store"
    /\ cache_value' = Put(EmptyDict, key[t], result[t])
    /\ stored' = Put(stored, key[t], Get(stored, key[t], 0) + 1)
    /\ pc' = [pc EXCEPT ![t] = "idle"]
    /\ ret' = [ret EXCEPT ![t] = Returned(result[t], FALSE)]
    /\ origin' = IF Has(origin, key[t]) THEN origin ELSE Put(origin, key[t], call[t])
    /\ UNCHANGED <<otherVars, impl, call, key, result, ncalls, invoked, raised, first, wiped>>

\* cache_value[key] = result; return result
Store(t) ==
    /\ pc[t] = "store"
    /\ cache_value' = Put(cache_value, key[t], result[t])
    /\ stored' = Put(stored, key[t], Get(stored, key[t], 0) + 1)
    /\ pc' = [pc EXCEPT ![t] = "idle"]
    /\ ret' = [ret EXCEPT ![t] = Returned(result[t], FALSE)]
    /\ origin' = IF Has(origin, key[t]) THEN origin ELSE Put(origin, key[t], call[t])
    /\ UNCHANGED <<otherVars, impl, call, key, result, ncalls, invoked, raised, first, wiped>>

\* a clear that rebinds a local name and leaves the dict as it is
ClearCacheNoop(t) ==
    /\ HasClearCache(impl)
    /\ pc[t] = "idle"
    /\ invoked' = EmptyDict
    /\ stored' = EmptyDict
    /\ first' = EmptyDict
    /\ raised' = EmptyDict
    /\ origin' = EmptyDict
    /\ wiped' = wiped \cup DOMAIN cache_value
    /\ ret' = [ret EXCEPT ![t] = Cleared]
    /\ UNCHANGED <<otherVars, impl, cache_value, pc, call, key, result, ncalls>>

\* memoized_func.clear_cache(): cache.clear()
ClearCache(t) ==
    /\ HasClearCache(impl)
    /\ pc[t] = "idle"
    /\ cache_value' = EmptyDict
    /\ invoked' = EmptyDict
    /\ stored' = EmptyDict
    /\ first' = EmptyDict
    /\ raised' = EmptyDict
    /\ origin' = EmptyDict
    /\ wiped' = wiped \cup DOMAIN cache_value
    /\ ret' = [ret EXCEPT ![t] = Cleared]
    /\ UNCHANGED <<otherVars, impl, pc, call, key, result, ncalls>>

Step(t, inputs) ==
    \/ \E c \in inputs : Call(t, c)
    \/ Hit(t)
    \/ Invoke(t)
    \/ FuncReturn(t)
    \/ FuncRaise(t)
    \/ Store(t)
    \/ ClearCache(t)

\* the program as the repository runs it: one thread calls the wrapper
Next == Step(MainThread, Calls)

Spec == Init /\ [][Next]_vars

\* the wrapper called from several threads
ConcNext == \E t \in Threads : Step(t, ConcCalls)

ConcSpec == Init /\ [][ConcNext]_vars

---------------------------------------------------------------------------
(* The dict handed out for inspection.  decorator.py sets wrapper.cache =   *)
(* cache_value and memoize sets memoized_func.cache = cache: the attribute  *)
(* is the dict itself, so a caller's item assignment or del on it acts on   *)
(* the wrapper's dict.  03_decorator.py hands out nothing.                  *)

ExposesDict(i) == i \in {"cache", "memoize"}

\* the keys a caller writes through the handle: those of f(), f(1), f('1')
HandleKeys == {Key(impl, c) : c \in ConcCalls}

Tampered == <<"tampered">>

\* f.cache[k] = v
HandleSet(t, k, v) ==
    /\ ExposesDict(impl)
    /\ pc[t] = "idle"
    /\ ncalls < MaxCalls
    /\ ncalls' = ncalls + 1
    /\ cache_value' = Put(cache_value, k, v)
    /\ UNCHANGED <<otherVars, impl, pc, call, key, result, ret, invoked, raised, stored,
                   first, origin, wiped>>

\* del f.cache[k]
HandleDel(t, k) ==
    /\ ExposesDict(impl)
    /\ pc[t] = "idle"
    /\ ncalls < MaxCalls
    /\ Has(cache_value, k)
    /\ ncalls' = ncalls + 1
    /\ cache_value' = [x \in DOMAIN cache_value \ {k} |-> cache_value[x]]
    /\ UNCHANGED <<otherVars, impl, pc, call, key, result, ret, invoked, raised, stored,
                   first, origin, wiped>>

\* one caller that also uses the handle between its calls
HandleNext ==
    \/ Step(MainThread, Calls)
    \/ \E k \in HandleKeys : HandleSet(MainThread, k, Tampered)
    \/ \E k \in DOMAIN cache_value : HandleDel(MainThread, k)

HandleSpec == Init /\ [][HandleNext]_vars

---------------------------------------------------------------------------
(* 07_threads_concurrency/01.py, safe_increment: each worker runs          *)
(*     for _ in range(100000):                                             *)
(*         with counter_lock:                                              *)
(*             counter_safe += 1                                           *)
(* counter_safe += 1 is a load, an add and a store: a thread switch can    *)
(* fall between them.                                                      *)

\* an acquire that does not wait for the lock to be free
AcquireNoWait(w) ==
    /\ cpc[w] = "loop"
    /\ ci[w] < Increments
    /\ counter_lock' = w
    /\ cpc' = [cpc EXCEPT ![w] = "load"]
    /\ UNCHANGED <<notCounter, counter_safe, ci, creg>>

\* with counter_lock: __enter__ acquires the lock, waiting while it is held
Acquire(w) ==
    /\ cpc[w] = "loop"
    /\ ci[w] < Increments
    /\ counter_lock = 0
    /\ counter_lock' = w
    /\ cpc' = [cpc EXCEPT ![w] = "load"]
    /\ UNCHANGED <<notCounter, counter_safe, ci, creg>>

\* counter_safe += 1: the global is loaded
Load(w) ==
    /\ cpc[w] = "load"
    /\ creg' = [creg EXCEPT ![w] = counter_safe]
    /\ cpc' = [cpc EXCEPT ![w] = "store"]
    /\ UNCHANGED <<notCounter, counter_safe, counter_lock, ci>>

\* counter_safe += 1: the sum is stored
StoreSum(w) ==
    /\ cpc[w] = "store"
    /\ counter_safe' = creg[w] + 1
    /\ cpc' = [cpc EXCEPT ![w] = "release"]
    /\ UNCHANGED <<notCounter, counter_lock, ci, creg>>

\* the with block is left: __exit__ releases the lock; next iteration
Release(w) ==
    /\ cpc[w] = "release"
    /\ counter_lock' = 0
    /\ ci' = [ci EXCEPT ![w] = ci[w] + 1]
    /\ cpc' = [cpc EXCEPT ![w] = IF ci[w] + 1 = Increments THEN "done" ELSE "loop"]
    /\ UNCHANGED <<notCounter, counter_safe, creg>>

CounterNext ==
    \E w \in Workers : Acquire(w) \/ Load(w) \/ StoreSum(w) \/ Release(w)

\* the caches are not in use: one wrapper, never called
CacheIdle == Init /\ impl = "cache"

CounterSpec == CacheIdle /\ [][CounterNext]_vars

---------------------------------------------------------------------------
(* The memoized recursive fibonacci: decorator.py 106-111 under @cache,    *)
(* 04_functions/01.py 411-416 under @memoize.                              *)
(*     def fibonacci(n):                                                   *)
(*         if n <= 1: return n                                             *)
(*         return fibonacci(n - 1) + fibonacci(n - 2)                      *)
(* The name fibonacci is bound to the wrapper, so the recursive calls go   *)
(* through the cache.  fib_stack holds the wrapper frames in progress.     *)

FibImpls == {"cache", "memoize"}

\* the key of the call fibonacci(n)
FibKey(n) == Key(impl, [args |-> <<PyInt(n)>>, kwargs |-> <<>>])

Frame(n) == [n |-> n, pc |-> "lookup", a |-> 0, res |-> 0]

Top == fib_stack[Len(fib_stack)]

SetTop(f) == [fib_stack EXCEPT ![Len(fib_stack)] = f]

\* the innermost wrapper returns v: its frame is popped and the caller,
\* which waits for its first or its second operand, receives v
Return(v) ==
    LET rest == SubSeq(fib_stack, 1, Len(fib_stack) - 1)
        caller == rest[Len(rest)]
    IN
    IF rest = <<>>
    THEN /\ fib_stack' = <<>>
         /\ fib_ret' = v
         /\ fib_done' = fib_done + 1
    ELSE /\ fib_stack' = [rest EXCEPT ![Len(rest)] =
                             IF caller.pc = "wait1"
                             THEN [caller EXCEPT !.pc = "got1", !.a = v]
                             ELSE [caller EXCEPT !.pc = "got2", !.res = caller.a + v]]
         /\ UNCHANGED <<fib_ret, fib_done>>

\* the demo calls fibonacci(n) and then fibonacci(n) again
FibTop ==
    /\ fib_stack = <<>>
    /\ fib_done < FibTopCalls
    /\ fib_stack' = <<Frame(fib_n)>>
    /\ UNCHANGED <<notFib, fib_n, fib_cache, fib_done, fib_ret, fib_body>>

\* wrapper: the key is in the dict, the stored result is returned
FibHit ==
    /\ fib_stack # <<>>
    /\ Top.pc = "lookup"
    /\ Has(fib_cache, FibKey(Top.n))
    /\ Return(fib_cache[FibKey(Top.n)])
    /\ UNCHANGED <<notFib, fib_n, fib_cache, fib_body>>

\* wrapper: the key is not in the dict, the wrapped body is invoked
FibMiss ==
    /\ fib_stack # <<>>
    /\ Top.pc = "lookup"
    /\ ~Has(fib_cache, FibKey(Top.n))
    /\ fib_stack' = SetTop([Top EXCEPT !.pc = "body"])
    /\ fib_body' = Put(fib_body, Top.n, Get(fib_body, Top.n, 0) + 1)
    /\ UNCHANGED <<notFib, fib_n, fib_cache, fib_done, fib_ret>>

\* body: if n <= 1: return n
FibBase ==
    /\ fib_stack # <<>>
    /\ Top.pc = "body"
    /\ Top.n <= 1
    /\ fib_stack' = SetTop([Top EXCEPT !.pc = "store", !.res = Top.n])
    /\ UNCHANGED <<notFib, fib_n, fib_cache, fib_done, fib_ret, fib_body>>

\* body: fibonacci(n - 1) is called
FibRecurse1 ==
    /\ fib_stack # <<>>
    /\ Top.pc = "body"
    /\ Top.n > 1
    /\ fib_stack' = Append(SetTop([Top EXCEPT !.pc = "wait1"]), Frame(Top.n - 1))
    /\ UNCHANGED <<notFib, fib_n, fib_cache, fib_done, fib_ret, fib_body>>

\* body: fibonacci(n - 2) is called
FibRecurse2 ==
    /\ fib_stack # <<>>
    /\ Top.pc = "got1"
    /\ fib_stack' = Append(SetTop([Top EXCEPT !.pc = "wait2"]), Frame(Top.n - 2))
    /\ UNCHANGED <<notFib, fib_n, fib_cache, fib_done, fib_ret, fib_body>>

\* body: the sum is returned to the wrapper
FibAdd ==
    /\ fib_stack # <<>>
    /\ Top.pc = "got2"
    /\ fib_stack' = SetTop([Top EXCEPT !.pc = "store"])
    /\ UNCHANGED <<notFib, fib_n, fib_cache, fib_done, fib_ret, fib_body>>

\* a wrapper that returns the result without storing it
FibStoreNothing ==
    /\ fib_stack # <<>>
    /\ Top.pc = "store"
    /\ Return(Top.res)
    /\ UNCHANGED <<notFib, fib_n, fib_cache, fib_body>>

\* wrapper: the result is stored under the key and returned
FibStore ==
    /\ fib_stack # <<>>
    /\ Top.pc = "store"
    /\ fib_cache' = Put(fib_cache, FibKey(Top.n), Top.res)
    /\ Return(Top.res)
    /\ UNCHANGED <<notFib, fib_n, fib_body>>

FibNext ==
    \/ FibTop
    \/ FibHit
    \/ FibMiss
    \/ FibBase
    \/ FibRecurse1
    \/ FibRecurse2
    \/ FibAdd
    \/ FibStore

FibInit ==
    /\ CacheInit
    /\ impl \in FibImpls
    /\ Rest("fib")
    /\ FibIdle
    /\ fib_n \in 0..MaxFib

FibSpec == FibInit /\ [][FibNext]_vars

---------------------------------------------------------------------------
(* retry(max_attempts, delay), decorator.py 198-227:                       *)
(*     for attempt in range(max_attempts):                                 *)
(*         try: return func(...)                                           *)
(*         except Exception as e:                                          *)
(*             if attempt == max_attempts - 1: raise e                     *)
(*             time.sleep(delay)                                           *)
(* The wrapped function may return or raise at every invocation            *)
(* (unreliable_api_call, 292-301, does so at random).                      *)

\* what the i-th invocation of func in a call returns, and what it raises
Result(i) == <<"result", i>>
Exc(i) == <<"exception", i>>

\* wrapper(*args, **kwargs) is called
RetryCall ==
    /\ rpc = "idle"
    /\ rcalls < RetryCalls
    /\ rcalls' = rcalls + 1
    /\ attempt' = 0
    /\ rpc' = "for"
    /\ rcaught' = <<>>
    /\ rout' = [kind |-> "none", val |-> <<>>]
    /\ rhist' = <<>>
    /\ rslept' = 0
    /\ UNCHANGED <<notRetry, max_attempts, delay, rclock>>

\* for attempt in range(max_attempts): the next attempt is started
RetryAttempt ==
    /\ rpc = "for"
    /\ attempt < max_attempts
    /\ rpc' = "try"
    /\ UNCHANGED <<notRetry, max_attempts, delay, attempt, rcalls, rcaught,
                   rout, rhist, rslept, rclock>>

\* range(max_attempts) is exhausted: wrapper ends without a return statement
RetryFallOff ==
    /\ rpc = "for"
    /\ attempt >= max_attempts
    /\ rpc' = "idle"
    /\ rout' = [kind |-> "returned", val |-> "None"]
    /\ UNCHANGED <<notRetry, max_attempts, delay, attempt, rcalls, rcaught,
                   rhist, rslept, rclock>>

\* return func(*args, **kwargs): func returns
RetryFuncReturn ==
    /\ rpc = "try"
    /\ rhist' = Append(rhist, "returned")
    /\ rout' = [kind |-> "returned", val |-> Result(Len(rhist) + 1)]
    /\ rpc' = "idle"
    /\ UNCHANGED <<notRetry, max_attempts, delay, attempt, rcalls, rcaught,
                   rslept, rclock>>

\* func raises: except Exception as e
RetryFuncRaise ==
    /\ rpc = "try"
    /\ rhist' = Append(rhist, "raised")
    /\ rcaught' = Exc(Len(rhist) + 1)
    /\ rpc' = "except"
    /\ UNCHANGED <<notRetry, max_attempts, delay, attempt, rcalls, rout,
                   rslept, rclock>>

\* a wrapper that gives up one attempt early
RetryGiveUpEarly ==
    /\ rpc = "except"
    /\ attempt >= max_attempts - 2
    /\ rout' = [kind |-> "raised", val |-> rcaught]
    /\ rpc' = "idle"
    /\ UNCHANGED <<notRetry, max_attempts, delay, attempt, rcalls, rcaught,
                   rhist, rslept, rclock>>

\* if attempt == max_attempts - 1: raise e
RetryGiveUp ==
    /\ rpc = "except"
    /\ attempt = max_attempts - 1
    /\ rout' = [kind |-> "raised", val |-> rcaught]
    /\ rpc' = "idle"
    /\ UNCHANGED <<notRetry, max_attempts, delay, attempt, rcalls, rcaught,
                   rhist, rslept, rclock>>

\* time.sleep(delay), then the next turn of the loop
RetrySleep ==
    /\ rpc = "except"
    /\ attempt # max_attempts - 1
    /\ rslept' = rslept + 1
    /\ rclock' = rclock + delay
    /\ attempt' = attempt + 1
    /\ rpc' = "for"
    /\ UNCHANGED <<notRetry, max_attempts, delay, rcalls, rcaught, rout, rhist>>

RetryNext ==
    \/ RetryCall
    \/ RetryAttempt
    \/ RetryFallOff
    \/ RetryFuncReturn
    \/ RetryFuncRaise
    \/ RetryGiveUp
    \/ RetrySleep

RetryInit ==
    /\ CacheIdle0
    /\ Rest("retry")
    /\ RetryIdle
    /\ max_attempts \in 0..MaxAttempts
    /\ delay \in 1..MaxDelay

RetrySpec == RetryInit /\ [][RetryNext]_vars

---------------------------------------------------------------------------
(* decorator.py 276-289:                                                   *)
(*     @login_required                                                     *)
(*     @rate_limit(max_calls=2, time_window=10)                            *)
(*     @log_calls                                                          *)
(*     @validate_positive                                                  *)
(*     def transfer_money(user, amount, to_account)                        *)
(*     @admin_required                                                     *)
(*     @log_calls                                                          *)
(*     def view_all_accounts(user)                                         *)
(* The program is single-threaded: a call runs through its decorators      *)
(* without interruption, and time passes between calls.                    *)

\* the users of the demo (316-318), and one whose dict has no flags
admin_user == [is_logged_in |-> TRUE, is_admin |-> TRUE]
regular_user == [is_logged_in |-> TRUE, is_admin |-> FALSE]
guest_user == [is_logged_in |-> FALSE, is_admin |-> FALSE]
bare_user == [name |-> TRUE]
Users == {admin_user, regular_user, guest_user, bare_user}

Amounts == {-50, 0, 100}

AuthRequired == "Access denied: Authentication required"
AdminRequired == "Access denied: Administrative privileges required"
RateLimited == "Rate limit exceeded: Too many requests"
ValidationError == "Validation error: Negative values not allowed"
AccountData == "Account data: [Account1, Account2, Account3]"

\* str() of an int
RECURSIVE IntStr(_)
IntStr(n) ==
    IF n < 0 THEN "-" \o IntStr(-n)
    ELSE IF n < 10 THEN Digit(n)
    ELSE IntStr(n \div 10) \o Digit(n % 10)

Transferred(amount) == "Transferred $" \o IntStr(amount) \o " to account 12345"

\* a check that lets a user through when the flag is missing
LoggedInByDefault(user) == Get(user, "is_logged_in", TRUE)

\* login_required: user.get("is_logged_in", False)
LoggedIn(user) == Get(user, "is_logged_in", FALSE)

\* admin_required: user.get("is_admin", False)
IsAdmin(user) == Get(user, "is_admin", FALSE)

\* a filter that drops a call one second before it leaves the window
LiveShort(cs, t) == SelectSeq(cs, LAMBDA call_time : t - call_time < time_window - 1)

\* rate_limit: [call_time for call_time in calls if now - call_time < time_window]
Live(cs, t) == SelectSeq(cs, LAMBDA call_time : t - call_time < time_window)

\* validate_positive: some positional argument is a number below zero; the
\* user is a dict and to_account a str, and kwargs are not looked at
FoundNegative(amount, named) == ~named /\ amount < 0

\* time passes
Tick ==
    /\ now < MaxTime
    /\ now' = now + 1
    /\ UNCHANGED <<notProd, calls, logged, tn, tcall, tret, accepted>>

\* transfer_money(user, amount, "12345") or
\* transfer_money(user, amount=amount, to_account="12345")
TransferMoney(user, amount, named) ==
    /\ tn < MaxProdCalls
    /\ tn' = tn + 1
    /\ tcall' = [fn |-> "transfer_money", user |-> user, amount |-> amount,
                 named |-> named]
    /\ IF ~LoggedIn(user)
       THEN /\ tret' = [val |-> AuthRequired, invoked |-> FALSE]
            /\ UNCHANGED <<calls, logged, accepted>>
       ELSE IF Len(Live(calls, now)) >= max_calls
       THEN /\ calls' = Live(calls, now)
            /\ tret' = [val |-> RateLimited, invoked |-> FALSE]
            /\ UNCHANGED <<logged, accepted>>
       ELSE /\ calls' = Append(Live(calls, now), now)
            /\ accepted' = Append(accepted, now)
            /\ logged' = logged + 1
            /\ tret' = IF FoundNegative(amount, named)
                       THEN [val |-> ValidationError, invoked |-> FALSE]
                       ELSE [val |-> Transferred(amount), invoked |-> TRUE]
    /\ UNCHANGED <<notProd, now>>

\* view_all_accounts(user)
ViewAllAccounts(user) ==
    /\ tn < MaxProdCalls
    /\ tn' = tn + 1
    /\ tcall' = [fn |-> "view_all_accounts", user |-> user, amount |-> 0,
                 named |-> FALSE]
    /\ IF ~IsAdmin(user)
       THEN /\ tret' = [val |-> AdminRequired, invoked |-> FALSE]
            /\ UNCHANGED logged
       ELSE /\ logged' = logged + 1
            /\ tret' = [val |-> AccountData, invoked |-> TRUE]
    /\ UNCHANGED <<notProd, now, calls, accepted>>

ProdNext ==
    \/ Tick
    \/ \E user \in Users, amount \in Amounts, named \in BOOLEAN :
           TransferMoney(user, amount, named)
    \/ \E user \in Users : ViewAllAccounts(user)

ProdStart == CacheIdle0 /\ Rest("prod") /\ ProdInit

ProdSpec == ProdStart /\ [][ProdNext]_vars

---------------------------------------------------------------------------
(* AsyncRateLimitedClient, 08_async_python/01.py 493-540.  The coroutines  *)
(* run on one event loop: a coroutine is interrupted only at an await.     *)
(* _wait_for_rate_limit (509-526) has one await, asyncio.sleep(wait_time)  *)
(* at 521; what precedes it is one step, what follows it is another.       *)
(* Time is counted in ticks of 0.2 s: the window of 1.0 s is Window ticks  *)
(* and the simulated API call of 0.2 s (533) is RequestTicks.              *)

\* [t for t in self.request_times if now - t < 1.0]
Recent(ts, t) == SelectSeq(ts, LAMBDA x : t - x < Window)

\* a sleep of some coroutine has run out: the event loop resumes it before
\* the clock moves on
Due == \E c \in Coros : apc[c] \in {"sleep", "request"} /\ adue[c] <= atime

\* the event loop is idle until the next timer
ClientTick ==
    /\ atime < MaxClientTime
    /\ ~Due
    /\ atime' = atime + 1
    /\ UNCHANGED <<notClient, request_times, apc, adue, admitted>>

\* make_request is started (gather starts the coroutines in order) and runs
\* _wait_for_rate_limit up to its await, or to its end when it need not wait
Start(c) ==
    /\ apc[c] = "new"
    /\ \A d \in 1..c - 1 : apc[d] # "new"
    /\ LET recent == Recent(request_times, atime) IN
       IF Len(recent) >= rate_limit /\ Window - (atime - recent[1]) > 0
       THEN /\ request_times' = recent
            /\ apc' = [apc EXCEPT ![c] = "sleep"]
            /\ adue' = [adue EXCEPT ![c] = atime + (Window - (atime - recent[1]))]
            /\ UNCHANGED admitted
       ELSE /\ request_times' = Append(recent, atime)
            /\ admitted' = Append(admitted, atime)
            /\ apc' = [apc EXCEPT ![c] = "request"]
            /\ adue' = [adue EXCEPT ![c] = atime + RequestTicks]
    /\ UNCHANGED <<notClient, atime>>

\* asyncio.sleep(wait_time) is over: now = time.time(), the old requests are
\* dropped, and now is appended
Wake(c) ==
    /\ apc[c] = "sleep"
    /\ adue[c] <= atime
    /\ request_times' = Append(Recent(request_times, atime), atime)
    /\ admitted' = Append(admitted, atime)
    /\ apc' = [apc EXCEPT ![c] = "request"]
    /\ adue' = [adue EXCEPT ![c] = atime + RequestTicks]
    /\ UNCHANGED <<notClient, atime>>

\* the simulated API call is over: make_request returns
Finish(c) ==
    /\ apc[c] = "request"
    /\ adue[c] <= atime
    /\ apc' = [apc EXCEPT ![c] = "done"]
    /\ UNCHANGED <<notClient, atime, request_times, adue, admitted>>

ClientNext ==
    \/ ClientTick
    \/ \E c \in Coros : Start(c) \/ Wake(c) \/ Finish(c)

ClientStart == CacheIdle0 /\ Rest("client") /\ ClientInit

ClientSpec == ClientStart /\ [][ClientNext]_vars

---------------------------------------------------------------------------
(* 07_threads_concurrency/01.py, unsafe_increment: each worker runs        *)
(*     for _ in range(100000):                                             *)
(*         counter_unsafe += 1                                             *)
(* with no lock.  counter_unsafe += 1 loads the global, adds, and stores   *)
(* the sum; the interpreter may switch threads between the load and the    *)
(* store.                                                                  *)

\* counter_unsafe += 1: the global is loaded
UnsafeLoad(w) ==
    /\ upc[w] = "loop"
    /\ ui[w] < Increments
    /\ ureg' = [ureg EXCEPT ![w] = counter_unsafe]
    /\ upc' = [upc EXCEPT ![w] = "store"]
    /\ UNCHANGED <<notUnsafe, counter_unsafe, ui>>

\* a store of the loaded value, with the addition left out
UnsafeStoreSame(w) ==
    /\ upc[w] = "store"
    /\ counter_unsafe' = ureg[w]
    /\ ui' = [ui EXCEPT ![w] = ui[w] + 1]
    /\ upc' = [upc EXCEPT ![w] = IF ui[w] + 1 = Increments THEN "done" ELSE "loop"]
    /\ UNCHANGED <<notUnsafe, ureg>>

\* counter_unsafe += 1: the sum is stored; next iteration
UnsafeStore(w) ==
    /\ upc[w] = "store"
    /\ counter_unsafe' = ureg[w] + 1
    /\ ui' = [ui EXCEPT ![w] = ui[w] + 1]
    /\ upc' = [upc EXCEPT ![w] = IF ui[w] + 1 = Increments THEN "done" ELSE "loop"]
    /\ UNCHANGED <<notUnsafe, ureg>>

UnsafeNext == \E w \in Workers : UnsafeLoad(w) \/ UnsafeStore(w)

UnsafeStart == CacheIdle0 /\ Rest("unsafe") /\ UnsafeInit

UnsafeSpec == UnsafeStart /\ [][UnsafeNext]_vars

---------------------------------------------------------------------------
(* Claims *)

\* invocations of func for key k, since the last clear, that did not raise
NotRaised(k) == Get(invoked, k, 0) - Get(raised, k, 0)

\* C1: single-threaded and with no clear in between, func is invoked once
\* per key: an entry exists exactly after one invocation that did not raise,
\* no key has a second such invocation, the entry holds the first result
\* computed for the key, and every call that returns a value returns it.
C1_InvokedOncePerKey ==
    /\ \A k \in DOMAIN invoked : NotRaised(k) <= 1
    /\ \A k \in DOMAIN cache_value :
          /\ NotRaised(k) = 1
          /\ Has(first, k) /\ cache_value[k] = first[k]
    /\ ret[MainThread].kind = "value" =>
          /\ Has(first, key[MainThread])
          /\ ret[MainThread].val = first[key[MainThread]]

\* a second call with a key returned the cached value: one invocation so far
C1_Witness ==
    /\ ret[MainThread].kind = "value" /\ ret[MainThread].hit
    /\ ncalls >= 2 /\ wiped = {}
    /\ invoked[key[MainThread]] = 1

\* C2: concurrent callers with the same key, no entry yet: func is invoked
\* once for the key, never two invocations for one key in flight, and the
\* callers receive the same result.
C2_AtMostOnceUnderConcurrency ==
    /\ \A k \in DOMAIN invoked : NotRaised(k) <= 1
    /\ \A t, u \in Threads :
          (t # u /\ pc[t] = "running" /\ pc[u] = "running") => key[t] # key[u]
    /\ \A t, u \in Threads :
          (ret[t].kind = "value" /\ ret[u].kind = "value"
             /\ pc[t] = "idle" /\ pc[u] = "idle" /\ key[t] = key[u])
          => ret[t].val = ret[u].val

FuncRaised(t) == pc[t] = "running" /\ pc'[t] = "idle"

NewCall(t) == pc[t] = "idle" /\ pc'[t] # "idle"

\* C3: when func raises on a miss the caller gets the failure, no entry is
\* stored for the key and the other entries are untouched; the next call
\* with the key is a miss; when a later invocation succeeds the entry holds
\* its result and func is not invoked for the key again.
C3_FailureNotCached ==
    /\ [][FuncRaised(MainThread) =>
            /\ ret'[MainThread] = Raised("ComputationFailure")
            /\ cache_value' = cache_value
            /\ ~Has(cache_value', key[MainThread])]_vars
    /\ [][(ret[MainThread] = Raised("ComputationFailure") /\ NewCall(MainThread)
             /\ key'[MainThread] = key[MainThread])
            => pc'[MainThread] = "miss"]_vars
    /\ [][(pc[MainThread] = "miss" /\ pc'[MainThread] # "miss") =>
            /\ pc'[MainThread] = "running"
            /\ invoked'[key[MainThread]] = Get(invoked, key[MainThread], 0) + 1]_vars
    /\ [](\A k \in DOMAIN raised :
            Has(cache_value, k) =>
               /\ invoked[k] = raised[k] + 1
               /\ cache_value[k] = first[k])

\* func raised for the key, a later call succeeded, a third call was a hit
C3_Witness ==
    /\ ret[MainThread].kind = "value" /\ ret[MainThread].hit
    /\ Get(raised, key[MainThread], 0) >= 1
    /\ invoked[key[MainThread]] = raised[key[MainThread]] + 1

StoreStep(t) == pc[t] = "store" /\ pc'[t] = "idle"

KwSet(c) == {c.kwargs[j] : j \in 1..Len(c.kwargs)}

\* the same argument combination as Python compares them: positional values
\* equal (==) in order, named arguments equal as a mapping
SameCombination(c, d) ==
    /\ Len(c.args) = Len(d.args)
    /\ \A j \in 1..Len(c.args) : PyEq(c.args[j], d.args[j])
    /\ KwSet(c) = KwSet(d)

Unhashable(c) == \E j \in 1..Len(c.args) : ~Hashable(c.args[j])

\* C6: a call with a non-hashable argument raises at once: func is not
\* reached, no value is returned and no entry comes from such a call.
C6_UnhashableRejected ==
    /\ Unhashable(call[MainThread]) =>
          pc[MainThread] = "idle" /\ ret[MainThread].kind # "value"
    /\ \A k \in DOMAIN origin : ~Unhashable(origin[k])

\* the same positional arguments and the same named arguments
SameNamed(c, d) == c.args = d.args /\ KwSet(c) = KwSet(d)

\* C7: calls that differ only in the order of their named arguments derive
\* the same key, and a call is never a miss while the entry of such a call
\* is in the cache.
C7_KwargsOrderIrrelevant ==
    /\ pc[MainThread] # "idle" =>
          \A k \in DOMAIN origin :
             SameNamed(origin[k], call[MainThread]) => k = key[MainThread]
    /\ pc[MainThread] \in {"miss", "running", "store"} =>
          \A k \in DOMAIN cache_value :
             Has(origin, k) => ~SameNamed(origin[k], call[MainThread])

\* a hit on the entry of a call that named the same arguments in another order
C7_Witness ==
    /\ ret[MainThread].kind = "value" /\ ret[MainThread].hit
    /\ Len(call[MainThread].kwargs) = 2
    /\ origin[key[MainThread]].kwargs # call[MainThread].kwargs

\* C8: between two clears a key is stored at most once, and the value under
\* a key is the first one computed for it, in every interleaving of callers.
C8_StoredOncePerKey ==
    \A k \in DOMAIN stored :
       /\ stored[k] <= 1
       /\ (Has(cache_value, k) /\ Has(first, k)) => cache_value[k] = first[k]

\* C9: an entry leaves the cache only when clear empties the whole cache, an
\* entry's value never changes, and a store leaves the cache populated.
C9_OnlyClearEmpties ==
    /\ [][(\E k \in DOMAIN cache_value : ~Has(cache_value', k)) =>
            /\ HasClearCache(impl)
            /\ pc[MainThread] = "idle"
            /\ ret'[MainThread] = Cleared
            /\ cache_value' = EmptyDict]_vars
    /\ [][\A k \in DOMAIN cache_value :
            Has(cache_value', k) => cache_value'[k] = cache_value[k]]_vars
    /\ [][StoreStep(MainThread) =>
            cache_value' # EmptyDict /\ Has(cache_value', key[MainThread])]_vars

\* a populated cache was emptied by clear_cache
C9_Witness ==
    /\ wiped # {}
    /\ cache_value = EmptyDict
    /\ ret[MainThread] = Cleared

\* C10: a hit (the lookup that finds the key and the return of the entry)
\* leaves the dict and the invocation counts as they are and returns the
\* entry; a store adds the one entry key -> func's result and leaves every
\* other entry as it is.
C10_HitAndMissEffects ==
    /\ [][(pc[MainThread] = "hit" \/ pc'[MainThread] = "hit") =>
            /\ cache_value' = cache_value
            /\ invoked' = invoked]_vars
    /\ [][(pc[MainThread] = "hit" /\ pc'[MainThread] = "idle") =>
            ret'[MainThread] = Returned(cache_value[key[MainThread]], TRUE)]_vars
    /\ [][StoreStep(MainThread) =>
            /\ ~Has(cache_value, key[MainThread])
            /\ DOMAIN cache_value' = DOMAIN cache_value \cup {key[MainThread]}
            /\ cache_value'[key[MainThread]] = Func(call[MainThread])
            /\ \A k \in DOMAIN cache_value : cache_value'[k] = cache_value[k]]_vars

\* three entries, the third added by the last call next to the other two
C10_Witness ==
    /\ Cardinality(DOMAIN cache_value) = 3
    /\ ret[MainThread].kind = "value" /\ ~ret[MainThread].hit

\* C11: the dict changes only in the store of a miss and in clear: nothing
\* a caller does with the inspection handle adds, alters or removes an entry.
C11_OnlyMissAndClearChange ==
    [][cache_value' # cache_value =>
         \/ StoreStep(MainThread)
         \/ /\ HasClearCache(impl)
            /\ ret'[MainThread] = Cleared
            /\ cache_value' = EmptyDict]_vars

\* the name -> value binding of a call of f(filename, operation)
Bound(c) == {<<KwNames[j], c.args[j]>> : j \in 1..Len(c.args)} \cup KwSet(c)

\* the same values, one call passing positionally what the other names
PositionalVsNamed(c, d) == Bound(c) = Bound(d) /\ Len(c.args) # Len(d.args)

\* C12: in decorator.py's cache a call never derives the key of an entry
\* whose call passed the same values with another split between positional
\* and named arguments: it is no hit on that entry, it invokes func and its
\* result is stored under its own key.
C12_PositionalAndNamedDiffer ==
    impl = "cache" =>
       /\ pc[MainThread] # "idle" =>
             \A k \in DOMAIN origin :
                PositionalVsNamed(origin[k], call[MainThread]) => k # key[MainThread]
       /\ (ret[MainThread].kind = "value" /\ pc[MainThread] = "idle") =>
             /\ Has(origin, key[MainThread])
             /\ ~PositionalVsNamed(origin[key[MainThread]], call[MainThread])
             /\ (\E k \in DOMAIN origin :
                    PositionalVsNamed(origin[k], call[MainThread]))
                => NotRaised(key[MainThread]) = 1

\* f(1) was cached and f(filename=1) (or the reverse) then missed and was
\* stored under a second key
C12_Witness ==
    /\ impl = "cache"
    /\ ret[MainThread].kind = "value" /\ ~ret[MainThread].hit
    /\ \E k \in DOMAIN cache_value :
          /\ k # key[MainThread]
          /\ PositionalVsNamed(origin[k], call[MainThread])
    /\ Has(cache_value, key[MainThread])

RECURSIVE Completed(_)
\* iterations completed by the workers 1..n
Completed(n) == IF n = 0 THEN 0 ELSE ci[n] + Completed(n - 1)

\* C20: with the lock, counter_safe is at every moment the number of
\* increments performed (completed iterations, plus the one stored by the
\* thread that is about to release the lock), and it is T * M once every
\* thread has finished.
C20_NoLostIncrement ==
    /\ counter_safe = Completed(NWorkers)
                        + (IF \E w \in Workers : cpc[w] = "release" THEN 1 ELSE 0)
    /\ (\A w \in Workers : cpc[w] = "done") => counter_safe = NWorkers * Increments

\* every thread has finished its loop
C20_Witness ==
    /\ \A w \in Workers : cpc[w] = "done" /\ ci[w] = Increments
    /\ counter_safe = NWorkers * Increments
    /\ counter_lock = 0


\* the k-th Fibonacci number, by its recurrence
RECURSIVE Fibo(_)
Fibo(k) == IF k <= 1 THEN k ELSE Fibo(k - 1) + Fibo(k - 2)

\* between top-level calls: the body ran once for each k of ks, the dict
\* holds an entry for exactly these k, each the right number, and the call
\* returned Fibo(fib_n)
FibOnceEach(ks) ==
    /\ DOMAIN fib_body = ks
    /\ \A k \in ks : fib_body[k] = 1
    /\ DOMAIN fib_cache = {FibKey(k) : k \in ks}
    /\ \A k \in ks : fib_cache[FibKey(k)] = Fibo(k)
    /\ fib_ret = Fibo(fib_n)

FibReturned == fib_stack = <<>> /\ fib_done >= 1

\* C13 as stated: after the first call fibonacci(n) with n >= 1 on an empty
\* cache the body has run once for each k in 0..n and the cache holds n + 1
\* entries, and the repeated call runs the body zero times.  Violated for
\* n = 1: fibonacci(1) returns at `if n <= 1` and never asks for k = 0.
C13_OnceEachFromOne ==
    (FibReturned /\ fib_n >= 1) => FibOnceEach(0..fib_n)

\* C13 (amended): for n >= 2 the first call fibonacci(n) on an empty cache
\* runs the body exactly once for each k in 0..n and leaves n + 1 entries;
\* for n <= 1 it runs the body once, for n only, and leaves one entry.  The
\* repeated call fibonacci(n) runs the body zero times: the counts are the
\* same after the second call as after the first.
C13_OnceEachFromTwo ==
    FibReturned =>
        /\ FibOnceEach(IF fib_n >= 2 THEN 0..fib_n ELSE {fib_n})
        /\ fib_n >= 2 => Cardinality(DOMAIN fib_cache) = fib_n + 1

C13_Witness ==
    /\ fib_n >= 3
    /\ fib_stack = <<>>
    /\ fib_done = FibTopCalls
    /\ Cardinality(DOMAIN fib_cache) = fib_n + 1
    /\ \A k \in 0..fib_n : fib_body[k] = 1


\* every invocation of func in this call but the last one raised
OnlyLastMayReturn == \A i \in 1..Len(rhist) - 1 : rhist[i] = "raised"

\* C14: with max_attempts = m >= 1 a call of the wrapper invokes func at
\* most m times; it returns the result of the first invocation that returns,
\* and invokes nothing after it; when all m invocations raise, the
\* exception of the m-th one reaches the caller after exactly m - 1 sleeps.
C14_RetryAtMostM ==
    max_attempts >= 1 =>
        /\ Len(rhist) <= max_attempts
        /\ OnlyLastMayReturn
        /\ (rpc = "idle" /\ rout.kind = "returned") =>
               /\ rhist[Len(rhist)] = "returned"
               /\ rout.val = Result(Len(rhist))
               /\ rslept = Len(rhist) - 1
        /\ (rpc = "idle" /\ rout.kind = "raised") =>
               /\ Len(rhist) = max_attempts
               /\ \A i \in 1..max_attempts : rhist[i] = "raised"
               /\ rout.val = Exc(max_attempts)
               /\ rslept = max_attempts - 1
        /\ (rpc = "idle" /\ rcalls > 0) => rout.kind \in {"returned", "raised"}

\* all three attempts raised and the third exception reached the caller
C14_Witness ==
    /\ max_attempts = 3
    /\ rpc = "idle"
    /\ rout = [kind |-> "raised", val |-> Exc(3)]
    /\ rslept = 2
    /\ rclock >= 2 * delay


\* any max_calls + 1 calls that rate_limit let through span at least
\* time_window seconds
Spaced ==
    \A i \in 1..Len(accepted) - max_calls :
        accepted[i + max_calls] - accepted[i] >= time_window

\* the calls let through that are younger than time_window
Young == {i \in 1..Len(accepted) : now - accepted[i] < time_window}

\* this step is a call of fn
CallOf(fn) == tn' = tn + 1 /\ tcall'.fn = fn

\* C15: at most max_calls invocations of the function wrapped by rate_limit
\* have call times within an interval shorter than time_window; a call that
\* reaches rate_limit while max_calls accepted calls are younger than
\* time_window returns the rate-limit message, invokes nothing (no log
\* line, no transfer) and is not recorded in calls.
C15_SlidingWindow ==
    [][/\ Spaced'
       /\ (/\ CallOf("transfer_money")
           /\ "is_logged_in" \in DOMAIN tcall'.user
           /\ tcall'.user["is_logged_in"]
           /\ Cardinality(Young) >= max_calls) =>
              /\ tret' = [val |-> RateLimited, invoked |-> FALSE]
              /\ accepted' = accepted
              /\ logged' = logged
              /\ Len(calls') = max_calls
              /\ \A i \in 1..Len(calls') : calls'[i] \in {accepted[j] : j \in Young}]_vars

\* a call was rejected after the window had moved on and let a third and a
\* fourth call through
C15_Witness ==
    /\ tcall.fn = "transfer_money"
    /\ tret.val = RateLimited
    /\ Len(accepted) = 2 * max_calls
    /\ Spaced

\* the flag k is missing from the user's dict, or false
FlagOff(user, k) == k \notin DOMAIN user \/ ~user[k]

\* C17: for a user whose is_logged_in flag is missing or false transfer_money
\* is not invoked, and for a user whose is_admin flag is missing or false
\* view_all_accounts is not invoked; the call returns the access-denied
\* message and leaves the rate-limit list and the log as they were.
C17_DeniedBeforeInner ==
    [][/\ (CallOf("transfer_money") /\ FlagOff(tcall'.user, "is_logged_in")) =>
              /\ tret' = [val |-> AuthRequired, invoked |-> FALSE]
              /\ calls' = calls /\ accepted' = accepted /\ logged' = logged
       /\ (CallOf("view_all_accounts") /\ FlagOff(tcall'.user, "is_admin")) =>
              /\ tret' = [val |-> AdminRequired, invoked |-> FALSE]
              /\ calls' = calls /\ accepted' = accepted /\ logged' = logged]_vars

\* a user without the flag was turned away while the quota was in use
C17_Witness ==
    /\ tcall.fn = "transfer_money"
    /\ tcall.user = bare_user
    /\ tret.val = AuthRequired
    /\ Len(calls) = max_calls
    /\ logged = max_calls

\* C18 as stated: transfer_money's body runs only when its numeric argument
\* amount is positive.  Violated: validate_positive tests `arg < 0` on the
\* positional arguments only, so amount 0 and a named negative amount pass.
C18_InvokedOnlyIfPositive ==
    (tcall.fn = "transfer_money" /\ tret.invoked) => tcall.amount > 0

\* C19 as stated: transfer_money(user, amount, account) by a logged-in user
\* with a negative amount returns the validation-error message.  Violated
\* where the demo makes the call: rate_limit stands before validate_positive
\* and the quota of the window is used up.
C19_NegativeIsValidationError ==
    (/\ tcall.fn = "transfer_money"
     /\ LoggedIn(tcall.user)
     /\ ~tcall.named
     /\ tcall.amount < 0) => tret.val = ValidationError


\* C16 as stated: whatever the number of concurrent make_request
\* coroutines, no more than rate_limit requests are admitted within one
\* second, that is, any rate_limit + 1 admissions span at least one second.
\* Violated: a coroutine that has slept appends its request without looking
\* at the limit again, so all the coroutines that waited for the same
\* moment are admitted together.
C16_RateRespected ==
    \A i \in 1..Len(admitted) - rate_limit :
        admitted[i + rate_limit] - admitted[i] >= Window


\* increments of counter_unsafe the workers have performed so far
RECURSIVE Performed(_)
Performed(n) == IF n = 0 THEN 0 ELSE ui[n] + Performed(n - 1)

UnsafeDone == \A w \in Workers : upc[w] = "done"

\* the least value the counter can end with: a lone worker loses nothing;
\* with several workers the last store can be of a value loaded when the
\* counter was 1, but never of one loaded when it was 0
LeastFinal ==
    IF NWorkers = 1 THEN Increments
    ELSE IF Increments = 1 THEN 1
    ELSE 2

\* C21: counter_unsafe += 1 without a lock is not atomic.  The counter never
\* exceeds the number of increments performed and ends between LeastFinal
\* and NWorkers * Increments; the interleaving in which an update is lost,
\* the final counter being smaller than the number of increments performed,
\* is the state of C21_Witness.
C21_UpdatesCanOnlyBeLost ==
    /\ counter_unsafe <= Performed(NWorkers)
    /\ Performed(NWorkers) > 0 => counter_unsafe >= 1
    /\ UnsafeDone =>
           /\ Performed(NWorkers) = NWorkers * Increments
           /\ counter_unsafe >= LeastFinal
           /\ counter_unsafe <= NWorkers * Increments

\* both threads have finished and the counter is short of the increments
\* performed: a lost update
C21_Witness ==
    /\ UnsafeDone
    /\ Performed(NWorkers) = NWorkers * Increments
    /\ counter_unsafe < NWorkers * Increments

=============================================================================
